---------------------------- MODULE Spec2Model ----------------------------
(***************************************************************************)
(* MongoDBBlockInputStream (dbms/include/DB/Dictionaries/                  *)
(* MongoDBBlockInputStream.h): a stream that turns the documents of a      *)
(* MongoDB cursor into Blocks of at most max_block_size rows.              *)
(*                                                                         *)
(* The model holds the stream's members (cursor, sample_block,             *)
(* max_block_size, types, names), the locals of a running readImpl call    *)
(* (block, num_rows) and, as history, the documents pulled from the cursor *)
(* and the outcome of every finished readImpl call.                        *)
(***************************************************************************)
EXTENDS Integers, Sequences, FiniteSets, TLC

\* ------------------------------------------------------------------ bounds
MaxCols == 2      \* columns of the sample block
MaxBlock == 2     \* largest max_block_size
MaxRecords == 3   \* documents the cursor ever yields
MaxCalls == 3     \* readImpl calls of one run
RowRecords == 1   \* documents of the sources of SpecRow
MaxPrior == 1     \* elements of the column before an insertValue of SpecInsert

\* ------------------------------------------------------- type descriptors
\* enum struct value_type_t
Kinds ==
  {"UInt8", "UInt16", "UInt32", "UInt64", "Int8", "Int16", "Int32", "Int64",
   "Float32", "Float64", "String", "Date", "DateTime"}

\* The IDataType classes a sample block column can carry: the thirteen the
\* header includes, and one it does not know (FixedString).
Descriptors == Kinds \cup {"FixedString"}

\* The descriptors of the sample blocks of more than one column: one for
\* the kinds asking for a Bool, a number and a String in the document,
\* and the unknown one.
WideDescriptors == {"UInt8", "Int32", "String", "FixedString"}

Unsupported == "Unsupported"

\* The typeid_cast chain of the constructor, in its order. The tenth test
\* asks for DataTypeInt64 a second time where Float64 is pushed.
BindKind(d) ==
  IF d = "UInt8" THEN "UInt8"
  ELSE IF d = "UInt16" THEN "UInt16"
  ELSE IF d = "UInt32" THEN "UInt32"
  ELSE IF d = "UInt64" THEN "UInt64"
  ELSE IF d = "Int8" THEN "Int8"
  ELSE IF d = "Int16" THEN "Int16"
  ELSE IF d = "Int32" THEN "Int32"
  ELSE IF d = "Int64" THEN "Int64"
  ELSE IF d = "Float32" THEN "Float32"
  ELSE IF d = "Int64" THEN "Float64"
  ELSE IF d = "String" THEN "String"
  ELSE IF d = "Date" THEN "Date"
  ELSE IF d = "DateTime" THEN "DateTime"
  ELSE Unsupported

\* ------------------------------------------------------------- BSON values
\* A BSONElement: its type() tag and its payload, v for the boolean, numeric
\* and date payloads (a date is milliseconds since the epoch) and s for the
\* string payload. Values are the values of the documents of a source.
Absent == [tag |-> "EOO", v |-> 0, s |-> ""]

Values ==
  { [tag |-> "Bool", v |-> 1, s |-> ""],
    [tag |-> "NumberInt", v |-> 70000, s |-> ""],
    [tag |-> "String", v |-> 0, s |-> "a"],
    [tag |-> "Date", v |-> 172800123, s |-> ""] }

FieldChoices == {Absent} \cup Values

\* BSONElement::ok()
Ok(value) == value.tag # "EOO"

\* isNumber() taking the text of a string for a number as well.
IsNumber_OrString(value) ==
  value.tag \in {"NumberInt", "NumberLong", "NumberDouble", "String"}

\* BSONElement::isNumber()
IsNumber(value) == value.tag \in {"NumberInt", "NumberLong", "NumberDouble"}

Pow2(w) == 2 ^ w

\* A value stored in a w-bit unsigned column element: reduced modulo 2^w.
\* Payloads of the model lie in 0 .. 2^31 - 1, so the 32- and 64-bit
\* elements hold them unchanged.
NarrowU(w, x) == IF w < 31 THEN x % Pow2(w) ELSE x

\* A signed element that keeps the residue as it is, without the sign.
NarrowS_NoSign(w, x) == IF w < 31 THEN x % Pow2(w) ELSE x

\* The same for a signed element: the residue read as two's complement.
NarrowS(w, x) ==
  IF w < 31
    THEN LET m == x % Pow2(w) IN IF m >= Pow2(w - 1) THEN m - Pow2(w) ELSE m
    ELSE x

\* BSONElement::numberInt(): the value as a 32-bit int.
NumberInt(value) == NarrowS(32, value.v)

\* BSONElement::numberLong(): the value as a 64-bit integer.
NumberLong(value) == NarrowS(64, value.v)

\* BSONElement::number(): the value as a double.
Number(value) == value.v

\* BSONElement::boolean()
Boolean(value) == value.v

\* Date_t::toTimeT(): milliseconds to whole seconds.
ToTimeT(value) == value.v \div 1000

\* DateLUT::toDayNum(): the day number of a time_t.
ToDayNum(t) == t \div 86400

\* ----------------------------------------------------------------- columns
\* A column is the sequence of its elements, each a number (of a ColumnVector)
\* or a string (of a ColumnString); an outcome of an insertion is the column
\* after it, or the exception that left it as it was.
Num(x) == [k |-> "num", n |-> x, s |-> ""]

Str(t) == [k |-> "str", n |-> 0, s |-> t]

Thrown(column) == [thrown |-> TRUE, col |-> column]

Inserted(column, elems) == [thrown |-> FALSE, col |-> column \o elems]

\* The little-endian bytes of the double b, for b in {0, 1}.
BytesOfDouble(b) ==
  [i \in 1..8 |->
     Num(IF b = 1 /\ i = 7 THEN 240 ELSE IF b = 1 /\ i = 8 THEN 63 ELSE 0)]

\* static_cast<ColumnFloat64 *>(column)->insert(value.boolean()) on what is
\* a ColumnUInt8: the cast names the wrong class, so the behaviour is
\* undefined. A build that dispatches insert through the vtable reaches
\* ColumnUInt8::insert and appends the one element; a build that binds the
\* call to ColumnFloat64::insert pushes the eight bytes of the double onto
\* the one-byte elements.
InsertBoolAsFloat64(column, b) ==
  { Inserted(column, <<Num(b)>>),
    Inserted(column, BytesOfDouble(b)) }

\* insertValue: the outcomes of one call.
InsertValue(column, type, value) ==
  CASE type = "UInt8" ->
         IF value.tag # "Bool" THEN {Thrown(column)}
         ELSE InsertBoolAsFloat64(column, Boolean(value))
    [] type = "UInt16" ->
         IF ~IsNumber(value) THEN {Thrown(column)}
         ELSE {Inserted(column, <<Num(NarrowU(16, NumberInt(value)))>>)}
    [] type = "UInt32" ->
         IF ~IsNumber(value) THEN {Thrown(column)}
         ELSE {Inserted(column, <<Num(NarrowU(32, NumberInt(value)))>>)}
    [] type = "UInt64" ->
         IF ~IsNumber(value) THEN {Thrown(column)}
         ELSE {Inserted(column, <<Num(NarrowU(64, NumberLong(value)))>>)}
    [] type = "Int8" ->
         IF ~IsNumber(value) THEN {Thrown(column)}
         ELSE {Inserted(column, <<Num(NarrowS(8, NumberInt(value)))>>)}
    [] type = "Int16" ->
         IF ~IsNumber(value) THEN {Thrown(column)}
         ELSE {Inserted(column, <<Num(NarrowS(16, NumberInt(value)))>>)}
    [] type = "Int32" ->
         IF ~IsNumber(value) THEN {Thrown(column)}
         ELSE {Inserted(column, <<Num(NarrowS(32, NumberInt(value)))>>)}
    [] type = "Int64" ->
         IF ~IsNumber(value) THEN {Thrown(column)}
         ELSE {Inserted(column, <<Num(NarrowS(64, NumberLong(value)))>>)}
    [] type = "Float32" ->
         IF ~IsNumber(value) THEN {Thrown(column)}
         ELSE {Inserted(column, <<Num(Number(value))>>)}
    [] type = "Float64" ->
         IF ~IsNumber(value) THEN {Thrown(column)}
         ELSE {Inserted(column, <<Num(Number(value))>>)}
    [] type = "String" ->
         IF value.tag # "String" THEN {Thrown(column)}
         ELSE {Inserted(column, <<Str(value.s)>>)}
    [] type = "Date" ->
         IF value.tag # "Date" THEN {Thrown(column)}
         ELSE {Inserted(column, <<Num(NarrowU(16, ToDayNum(ToTimeT(value))))>>)}
    [] type = "DateTime" ->
         IF value.tag # "Date" THEN {Thrown(column)}
         ELSE {Inserted(column, <<Num(NarrowU(32, ToTimeT(value)))>>)}

\* IColumn::insertDefault() of the column class each kind is cast to: the
\* zero of the element type.
DefaultOf(type) == IF type = "String" THEN Str("") ELSE Num(0)

\* insertDefaultValue with the case of Date left out of the switch.
InsertDefaultValue_NoDate(column, type) ==
  IF type = "Date" THEN {Inserted(column, <<>>)}
  ELSE {Inserted(column, <<DefaultOf(type)>>)}

\* insertDefaultValue
InsertDefaultValue(column, type) == {Inserted(column, <<DefaultOf(type)>>)}

\* A block is the sequence of its columns. Block::cloneEmpty(): the columns
\* of the sample block, each with no element.
CloneEmpty(sample) == [i \in 1..Len(sample) |-> <<>>]

\* ------------------------------------------------------------------- state
VARIABLES
  sample_block,    \* member: the columns (name, type descriptor) of the sample
  max_block_size,  \* member
  types,           \* member: std::vector<value_type_t>
  names,           \* member: std::vector<mongo::StringData>
  avail,           \* cursor: documents it can yield now (more() is avail > 0)
  tailable,        \* cursor: whether documents can still arrive
  arrived,         \* cursor: documents it has had so far
  phase,           \* "new", "live", "unsupported" (constructor threw), "crashed"
  pc,              \* "idle", or "loop" inside readImpl's while
  block,           \* readImpl local: the columns being filled
  num_rows,        \* readImpl local
  mores,           \* cursor->more() calls of the current call
  nexts,           \* cursor->next() calls of the current call
  pulled,          \* history: the documents next() returned, in order
  results,         \* history: the outcome of every finished readImpl call
  call             \* one insertValue call on its own: arguments and outcome

vars ==
  <<sample_block, max_block_size, types, names, avail, tailable, arrived,
    phase, pc, block, num_rows, mores, nexts, pulled, results, call>>

\* No insertValue call on its own is followed: the stream makes the calls.
NoCall ==
  [state |-> "none", column |-> <<>>, type |-> "", value |-> Absent,
   after |-> <<>>]

\* Column i of a sample block is named i: the names are unique.
Schemas ==
  UNION { [1..len -> IF len = 1 THEN Descriptors ELSE WideDescriptors] :
            len \in 1..MaxCols }

SampleBlockOf(schema) ==
  [i \in 1..Len(schema) |-> [name |-> i, type |-> schema[i]]]

\* The documents of a source for this sample block: each column's field is
\* absent or holds a value.
Documents == [1..Len(sample_block) -> FieldChoices]

Init ==
  /\ \E schema \in Schemas : sample_block = SampleBlockOf(schema)
  /\ max_block_size \in 0..MaxBlock
  /\ tailable \in BOOLEAN
  /\ avail \in 0..MaxRecords
  /\ arrived = avail
  /\ types = <<>>
  /\ names = <<>>
  /\ phase = "new"
  /\ pc = "idle"
  /\ block = <<>>
  /\ num_rows = 0
  /\ mores = 0
  /\ nexts = 0
  /\ pulled = <<>>
  /\ results = <<>>
  /\ call = NoCall

\* cursor->more()
More == avail > 0

\* A tailable cursor is given one more document by the server.
Arrive ==
  /\ tailable
  /\ phase \in {"new", "live"}
  /\ arrived < MaxRecords
  /\ avail' = avail + 1
  /\ arrived' = arrived + 1
  /\ UNCHANGED <<sample_block, max_block_size, types, names, tailable, phase,
                 pc, block, num_rows, mores, nexts, pulled, results, call>>

\* ------------------------------------------------------------- constructor
\* The columns the constructor's loop binds before it ends: all of them, or
\* those before the first one whose descriptor no test of the chain accepts.
RECURSIVE BoundPrefix(_, _)
BoundPrefix(sample, idx) ==
  IF idx > Len(sample) \/ BindKind(sample[idx].type) = Unsupported
    THEN idx - 1
    ELSE BoundPrefix(sample, idx + 1)

\* Whether the constructor returns before its loop.
ReturnsEarly(more) == ~more

Construct ==
  /\ phase = "new"
  /\ mores' = 1
  /\ IF ReturnsEarly(More)
       THEN /\ phase' = "live"
            /\ UNCHANGED <<types, names>>
       ELSE LET bound == BoundPrefix(sample_block, 1) IN
            /\ types' = [i \in 1..bound |-> BindKind(sample_block[i].type)]
            /\ names' = [i \in 1..bound |-> sample_block[i].name]
            /\ phase' = IF bound < Len(sample_block) THEN "unsupported" ELSE "live"
  /\ UNCHANGED <<sample_block, max_block_size, avail, tailable, arrived, pc,
                 block, num_rows, nexts, pulled, results, call>>

\* ---------------------------------------------------------------- readImpl
\* names[idx] and types[idx] read past the end of the vectors: undefined
\* behaviour. A short vector is an empty one here (the constructor returned
\* before its loop), it was never reserved, and the read of names[idx]
\* comes first: it goes through a null pointer, and the process faults.
UnboundRead(column) == {[end |-> "crash", col |-> column]}

\* The body of the for loop with the exception of insertValue caught and
\* the field skipped.
FillField_Swallows(column, idx, row, nms, tps) ==
  IF idx > Len(nms) \/ idx > Len(tps)
    THEN UnboundRead(column)
    ELSE LET value == row[nms[idx]] IN
         { [end |-> "ok", col |-> o.col] :
             o \in IF Ok(value)
                     THEN InsertValue(column, tps[idx], value)
                     ELSE InsertDefaultValue(column, tps[idx]) }

\* What the body of the for loop does for column idx of one document.
FillField(column, idx, row, nms, tps) ==
  IF idx > Len(nms) \/ idx > Len(tps)
    THEN UnboundRead(column)
    ELSE LET value == row[nms[idx]] IN
         { [end |-> IF o.thrown THEN "thrown" ELSE "ok", col |-> o.col] :
             o \in IF Ok(value)
                     THEN InsertValue(column, tps[idx], value)
                     ELSE InsertDefaultValue(column, tps[idx]) }

\* The for loop over the columns, from column idx on: the columns after it,
\* or the columns as the exception or the fault left them.
RECURSIVE FillRow(_, _, _, _, _)
FillRow(cols, idx, row, nms, tps) ==
  IF idx > Len(cols)
    THEN {[end |-> "ok", cols |-> cols]}
    ELSE UNION
      { IF o.end = "ok"
          THEN FillRow([cols EXCEPT ![idx] = o.col], idx + 1, row, nms, tps)
          ELSE {[end |-> o.end, cols |-> [cols EXCEPT ![idx] = o.col]]} :
        o \in FillField(cols[idx], idx, row, nms, tps) }

\* The record of a finished call: how it ended ("empty" is return {},
\* "block" is return block, "mismatch" the exception of insertValue, "crash"
\* the fault), the columns returned, the more() and next() calls it made,
\* the answer of its last more(), and whether it cloned the sample block.
Result(kind, cols, m, n, answer) ==
  [kind |-> kind, cols |-> cols, mores |-> m, nexts |-> n, more |-> answer,
   cloned |-> kind # "empty"]

\* The test that ends the while loop after a row.
BlockFull(rows, max) == rows = max

\* Lines 99-113: the first more(), and the empty block.
ReadImplBegin ==
  /\ phase = "live"
  /\ pc = "idle"
  /\ Len(results) < MaxCalls
  /\ mores' = 1
  /\ nexts' = 0
  /\ IF ~More
       THEN /\ results' = Append(results, Result("empty", <<>>, 1, 0, FALSE))
            /\ UNCHANGED <<pc, block, num_rows>>
       ELSE /\ block' = CloneEmpty(sample_block)
            /\ num_rows' = 0
            /\ pc' = "loop"
            /\ UNCHANGED results
  /\ UNCHANGED <<sample_block, max_block_size, types, names, avail, tailable,
                 arrived, phase, pulled, call>>

\* Line 114 with more() false, and line 132.
ReadImplNoMore ==
  /\ phase = "live"
  /\ pc = "loop"
  /\ ~More
  /\ mores' = mores + 1
  /\ results' = Append(results, Result("block", block, mores + 1, nexts, FALSE))
  /\ pc' = "idle"
  /\ block' = <<>>
  /\ num_rows' = 0
  /\ UNCHANGED <<sample_block, max_block_size, types, names, avail, tailable,
                 arrived, phase, nexts, pulled, call>>

\* Lines 114-129 with more() true: one document, and line 132 after the break.
ReadImplRow ==
  /\ phase = "live"
  /\ pc = "loop"
  /\ More
  /\ mores' = mores + 1
  /\ nexts' = nexts + 1
  /\ avail' = avail - 1
  /\ \E row \in Documents :
       /\ pulled' = Append(pulled, row)
       /\ \E o \in FillRow(block, 1, row, names, types) :
            \/ /\ o.end = "thrown"
               /\ results' = Append(results, Result("mismatch", <<>>, mores + 1, nexts + 1, TRUE))
               /\ pc' = "idle"
               /\ block' = <<>>
               /\ num_rows' = 0
               /\ UNCHANGED phase
            \/ /\ o.end = "crash"
               /\ results' = Append(results, Result("crash", <<>>, mores + 1, nexts + 1, TRUE))
               /\ pc' = "idle"
               /\ block' = <<>>
               /\ num_rows' = 0
               /\ phase' = "crashed"
            \/ /\ o.end = "ok"
               /\ BlockFull(num_rows + 1, max_block_size)
               /\ results' = Append(results, Result("block", o.cols, mores + 1, nexts + 1, TRUE))
               /\ pc' = "idle"
               /\ block' = <<>>
               /\ num_rows' = 0
               /\ UNCHANGED phase
            \/ /\ o.end = "ok"
               /\ ~BlockFull(num_rows + 1, max_block_size)
               /\ block' = o.cols
               /\ num_rows' = num_rows + 1
               /\ UNCHANGED <<pc, results, phase>>
  /\ UNCHANGED <<sample_block, max_block_size, types, names, tailable, arrived,
                 call>>

Next ==
  \/ Construct
  \/ Arrive
  \/ ReadImplBegin
  \/ ReadImplNoMore
  \/ ReadImplRow

Spec == Init /\ [][Next]_vars

\* The streams over a cursor that is not tailable and has at most RowRecords
\* documents: the rows readImpl's loop appends, document by document.
InitRow ==
  /\ Init
  /\ ~tailable
  /\ avail <= RowRecords

NextRow ==
  \/ Construct
  \/ ReadImplBegin
  \/ ReadImplNoMore
  \/ ReadImplRow

SpecRow == InitRow /\ [][NextRow]_vars

\* ------------------------------------------------- insertValue on its own
\* The present values insertValue is given here: both booleans, numbers of
\* the three numeric tags on either side of the 8- and 16-bit limits, strings
\* (one of them the text of a number), a date, and two tags no kind asks for.
InsertValues ==
  { [tag |-> "Bool", v |-> 0, s |-> ""],
    [tag |-> "Bool", v |-> 1, s |-> ""],
    [tag |-> "NumberInt", v |-> 100, s |-> ""],
    [tag |-> "NumberInt", v |-> 200, s |-> ""],
    [tag |-> "NumberInt", v |-> 40000, s |-> ""],
    [tag |-> "NumberInt", v |-> 70000, s |-> ""],
    [tag |-> "NumberInt", v |-> 2147483647, s |-> ""],
    [tag |-> "NumberLong", v |-> 98505, s |-> ""],
    [tag |-> "NumberDouble", v |-> 33000, s |-> ""],
    [tag |-> "String", v |-> 0, s |-> "a"],
    [tag |-> "String", v |-> 0, s |-> "7"],
    [tag |-> "Date", v |-> 172800123, s |-> ""],
    [tag |-> "jstNULL", v |-> 0, s |-> ""],
    [tag |-> "Object", v |-> 0, s |-> ""] }

\* The columns of a kind insertValue is given: those of up to MaxPrior
\* elements, each the default of the kind.
PriorColumns(type) ==
  { [i \in 1..len |-> DefaultOf(type)] : len \in 0..MaxPrior }

\* The arguments of one insertValue call; there is no stream.
InitInsert ==
  /\ \E type \in Kinds : \E column \in PriorColumns(type) :
       \E value \in InsertValues :
         call = [state |-> "args", column |-> column, type |-> type,
                 value |-> value, after |-> column]
  /\ sample_block = <<>>
  /\ max_block_size = 0
  /\ tailable = FALSE
  /\ avail = 0
  /\ arrived = 0
  /\ types = <<>>
  /\ names = <<>>
  /\ phase = "none"
  /\ pc = "idle"
  /\ block = <<>>
  /\ num_rows = 0
  /\ mores = 0
  /\ nexts = 0
  /\ pulled = <<>>
  /\ results = <<>>

\* insertValue(column, type, value): it returns with the column as the
\* insert left it, or throws.
InsertValueCall ==
  /\ call.state = "args"
  /\ \E o \in InsertValue(call.column, call.type, call.value) :
       call' = [call EXCEPT !.state = IF o.thrown THEN "thrown" ELSE "returned",
                            !.after = o.col]
  /\ UNCHANGED <<sample_block, max_block_size, types, names, avail, tailable,
                 arrived, phase, pc, block, num_rows, mores, nexts, pulled,
                 results>>

NextInsert == InsertValueCall

SpecInsert == InitInsert /\ [][NextInsert]_vars

\* -------------------------------------------------------------- properties
\* Every column of cols has r elements.
AllOfLength(cols, r) == \A c \in 1..Len(cols) : Len(cols[c]) = r

\* A present value insertValue accepts for the kind: no outcome throws.
Matches(type, value) ==
  \A o \in InsertValue(<<>>, type, value) : ~o.thrown

\* Every present field of the document matches the kind bound to its column.
WellTyped(row) ==
  \A idx \in 1..Len(types) :
    Ok(row[names[idx]]) => Matches(types[idx], row[names[idx]])

\* ceil(k / n)
CeilDiv(k, n) == (k + n - 1) \div n

\* C1: with max_block_size > 0, every readImpl call that returns gives either
\* the empty result, and then its more() answered false, or a block of
\* exactly one column per column of the sample block, all columns with the
\* same number r of rows, 0 < r <= max_block_size.
C1_BatchShape ==
  max_block_size > 0 =>
    \A i \in 1..Len(results) :
      /\ results[i].kind = "block" =>
           /\ Len(results[i].cols) = Len(sample_block)
           /\ \E r \in 1..max_block_size : AllOfLength(results[i].cols, r)
      /\ results[i].kind = "empty" => ~results[i].more

\* C2: for a source of k documents, all well typed, and 0 < n < k, the calls
\* return ceil(k/n) blocks, each of n rows but the last, which has k mod n
\* rows (n when that is 0), and the call after them returns the empty result.
C2_BatchCount ==
  LET k == arrived
      n == max_block_size
      last == CeilDiv(k, n)
  IN (/\ phase = "live"
      /\ ~tailable
      /\ 0 < n
      /\ n < k
      /\ \A j \in 1..Len(pulled) : WellTyped(pulled[j]))
     => \A i \in 1..Len(results) :
          /\ i <= last =>
               /\ results[i].kind = "block"
               /\ AllOfLength(results[i].cols,
                              IF i < last \/ k % n = 0 THEN n ELSE k % n)
          /\ i > last => results[i].kind = "empty"

\* C3: for a source of k documents, all well typed, and n >= k: with k > 0
\* the first call returns one block of k rows and every later call the
\* empty result; with k = 0 the first call returns the empty result without
\* cloning the sample block and without a next().
C3_SingleBatch ==
  LET k == arrived
      n == max_block_size
  IN (/\ phase = "live"
      /\ ~tailable
      /\ n >= k
      /\ \A j \in 1..Len(pulled) : WellTyped(pulled[j]))
     => \A i \in 1..Len(results) :
          IF k > 0 /\ i = 1
            THEN /\ results[i].kind = "block"
                 /\ AllOfLength(results[i].cols, k)
            ELSE /\ results[i].kind = "empty"
                 /\ ~results[i].cloned
                 /\ results[i].nexts = 0

\* C4: once a call has returned the empty result, every later call returns
\* the empty result and makes no call on the cursor, neither more() nor
\* next().
C4_ExhaustionNoCursor ==
  \A i \in 1..Len(results) : \A j \in (i + 1)..Len(results) :
    results[i].kind = "empty" =>
      /\ results[j].kind = "empty"
      /\ results[j].mores = 0
      /\ results[j].nexts = 0

\* The constructor found more() false and returned before binding a column.
ConstructorSawNoRows == phase \in {"live", "crashed"} /\ types = <<>>

\* C5: once the stream has reported exhaustion (the constructor saw no
\* rows, or a call returned the empty result), no later call returns a
\* block of rows.
C5_ExhaustionTerminal ==
  \A j \in 1..Len(results) :
    (ConstructorSawNoRows \/ \E i \in 1..(j - 1) : results[i].kind = "empty")
      => results[j].kind # "block"

\* The zero value of a kind: 0, the empty string, the epoch-zero date.
Zero(type) == IF type = "String" THEN Str("") ELSE Num(0)

\* The one element a present, matching value is coerced to.
Coerced(type, value) ==
  LET single ==
        {o \in InsertValue(<<>>, type, value) : ~o.thrown /\ Len(o.col) = 1}
  IN (CHOOSE o \in single : TRUE).col[1]

\* Column c of the concatenation of the blocks returned by calls i, i+1, ...
RECURSIVE ConcatFrom(_, _)
ConcatFrom(i, c) ==
  IF i > Len(results) THEN <<>>
  ELSE (IF results[i].kind = "block" THEN results[i].cols[c] ELSE <<>>)
         \o ConcatFrom(i + 1, c)

\* C6: between calls, as long as no call has failed, the blocks returned so
\* far hold in order one row per document pulled with next(), and in that
\* row every column holds the coerced value of the document's field, or the
\* zero of the kind when the field is absent.
C6_Concatenation ==
  (/\ pc = "idle"
   /\ phase = "live"
   /\ \A i \in 1..Len(results) : results[i].kind \in {"empty", "block"})
  => \A c \in 1..Len(types) :
       ConcatFrom(1, c) =
         [j \in 1..Len(pulled) |->
            LET value == pulled[j][names[c]] IN
            IF Ok(value) THEN Coerced(types[c], value) ELSE Zero(types[c])]

\* C7: after a call has failed with a type mismatch, no later call on the
\* stream returns rows.
C7_FailureTerminal ==
  \A i \in 1..Len(results) : \A j \in (i + 1)..Len(results) :
    results[i].kind = "mismatch" => results[j].kind # "block"

\* C8: whatever the cursor holds, the construction of a stream over a sample
\* block with a column whose descriptor is none of the thirteen fails as
\* unsupported, and no document has been pulled by then.
C8_UnsupportedAlways ==
  (/\ phase # "new"
   /\ \E idx \in 1..Len(sample_block) : sample_block[idx].type \notin Kinds)
  => phase = "unsupported" /\ pulled = <<>>

\* The constructor found more() true and ran its loop over the columns.
ConstructorSawRows ==
  phase = "unsupported" \/ (phase = "live" /\ types # <<>>)

\* C9: on a cursor with rows, the construction over a sample block whose
\* descriptors are all among the thirteen succeeds, and binds every column
\* to the kind of its descriptor's name.
C9_ThirteenKinds ==
  (/\ ConstructorSawRows
   /\ \A idx \in 1..Len(sample_block) : sample_block[idx].type \in Kinds)
  => /\ phase = "live"
     /\ types = [idx \in 1..Len(sample_block) |-> sample_block[idx].type]

\* A step of readImpl that appended the row of a document to the block.
RowAppended ==
  /\ Len(pulled') = Len(pulled) + 1
  /\ \/ pc' = "loop"
     \/ results'[Len(results')].kind = "block"

\* The columns after that step: of the block still being built, or of the
\* block the call returned.
ColumnsAfter ==
  IF pc' = "loop" THEN block' ELSE results'[Len(results')].cols

C10_Step ==
  RowAppended =>
    \A idx \in 1..Len(sample_block) :
      LET value == pulled'[Len(pulled')][sample_block[idx].name] IN
      IF ~Ok(value)
        THEN ColumnsAfter[idx] = Append(block[idx], Zero(types[idx]))
        ELSE \E o \in InsertValue(block[idx], types[idx], value) :
               ~o.thrown /\ ColumnsAfter[idx] = o.col

\* C10: whenever readImpl appends the row of a document, every column whose
\* field is absent from the document gets exactly one element, the zero of
\* the column's kind (0 or the empty string), whatever the other fields are,
\* and every other column gets what insertValue gives for its own field.
C10_AbsentGetsZero == [][C10_Step]_vars

\* A returned block whose last row came from a document without its first
\* field and with its second: the String column holds "", the other column
\* the coerced value.
C10_Witness ==
  /\ pc = "idle"
  /\ Len(results) > 0
  /\ Len(pulled) > 0
  /\ types = <<"String", "Int32">>
  /\ LET last == results[Len(results)]
         row == pulled[Len(pulled)]
     IN /\ last.kind = "block"
        /\ last.more
        /\ ~Ok(row[1])
        /\ Ok(row[2])
        /\ last.cols[1] = <<Str("")>>
        /\ last.cols[2] = <<Num(70000)>>

\* C11: insertValue on a UInt8 column throws for a present value whose tag
\* is not Bool, and for a Bool it returns having appended exactly one
\* element to the column, 1 for true and 0 for false.
C11_BoolToUInt8 ==
  (call.state # "args" /\ call.type = "UInt8") =>
    IF call.value.tag # "Bool"
      THEN call.state = "thrown"
      ELSE /\ call.state = "returned"
           /\ call.after = Append(call.column, Num(call.value.v))

\* The tag a kind expects of a present value.
ExpectedTag(type, value) ==
  CASE type = "UInt8" -> value.tag = "Bool"
    [] type = "String" -> value.tag = "String"
    [] type \in {"Date", "DateTime"} -> value.tag = "Date"
    [] OTHER -> value.tag \in {"NumberInt", "NumberLong", "NumberDouble"}

\* C12: for every kind and every present value, insertValue throws exactly
\* when the value's tag is not the one the kind expects (Bool for UInt8, a
\* number for the other integer and the floating kinds, String for String,
\* Date for Date and DateTime), and then the column is as it was; so a
\* string is never accepted for a numeric kind.
C12_MismatchIffWrongTag ==
  call.state \in {"thrown", "returned"} =>
    /\ call.state = "thrown" <=> ~ExpectedTag(call.type, call.value)
    /\ call.state = "thrown" => call.after = call.column

\* The text of a number given to a UInt16 column holding one element: the
\* call has thrown and the column still holds that one element.
C12_Witness ==
  /\ call.state = "thrown"
  /\ call.type = "UInt16"
  /\ call.value = [tag |-> "String", v |-> 0, s |-> "7"]
  /\ call.column = <<Num(0)>>
  /\ call.after = <<Num(0)>>

\* C13: for every max_block_size n >= 0, 0 included, a readImpl call pulls a
\* document only while its row counter is below n: it makes at most n
\* next() calls, and no column of a returned block has more than n elements.
C13_AtMostN ==
  /\ nexts <= max_block_size
  /\ \A i \in 1..Len(results) :
       results[i].kind = "block" =>
         \A c \in 1..Len(results[i].cols) :
           Len(results[i].cols[c]) <= max_block_size

\* A step of readImpl that pulled a document with a present field
\* insertValue refuses for the kind of its column.
CoercionFailed ==
  /\ Len(pulled') = Len(pulled) + 1
  /\ ~WellTyped(pulled'[Len(pulled')])

C14_Step ==
  CoercionFailed =>
    /\ pc' = "idle"
    /\ block' = <<>>
    /\ Len(results') = Len(results) + 1
    /\ results'[Len(results')].kind = "mismatch"
    /\ results'[Len(results')].cols = <<>>

C15_BoundPerColumn ==
  ((pc = "loop" /\ More) \/ pulled # <<>>) =>
    /\ Len(names) = Len(sample_block)
    /\ Len(types) = Len(sample_block)
    /\ \A i \in 1..Len(results) : results[i].kind # "crash"

\* C16: every next() follows a more() that answered true, with no other
\* next() between them, so a call makes no more next() calls than it got
\* true answers; and every call that returns normally has made as many
\* next() calls as the block it returns has rows (none for the empty result).
C16_CursorProtocol ==
  /\ nexts <= mores
  /\ \A i \in 1..Len(results) :
       /\ results[i].nexts <=
            results[i].mores - (IF results[i].more THEN 0 ELSE 1)
       /\ results[i].kind = "empty" => results[i].nexts = 0
       /\ results[i].kind = "block" =>
            AllOfLength(results[i].cols, results[i].nexts)

\* The bits of the elements of the column of an integer kind.
Width(type) ==
  CASE type \in {"Int8"} -> 8
    [] type \in {"UInt16", "Int16"} -> 16
    [] type \in {"UInt32", "Int32"} -> 32
    [] type \in {"UInt64", "Int64"} -> 64

Signed(type) == type \in {"Int8", "Int16", "Int32", "Int64"}

\* e is x narrowed to the elements of the kind: in the range of the w bits
\* and congruent to x modulo 2^w. The integer forms of the values here fit
\* 31 bits, so a 32- or 64-bit element holds them as they are.
IsNarrowed(type, e, x) ==
  LET w == Width(type) IN
  IF w >= 32 THEN e = x
  ELSE /\ (e - x) % (2 ^ w) = 0
       /\ IF Signed(type)
            THEN -(2 ^ (w - 1)) <= e /\ e < 2 ^ (w - 1)
            ELSE 0 <= e /\ e < 2 ^ w

=============================================================================
